---- MODULE Spec2Model ----
(***************************************************************************)
(* A model of the catalog reconciliation scripts of rhone-data:            *)
(*   combine_manual_scrapes.py  (reading, keying, merging, normalising),   *)
(*   database/supabase_client.py and the upload scripts (the sync writer). *)
(* Python strings are TLA+ strings; a JSON value is a tagged record        *)
(* [t, v]; a Python dict is the sequence of its (key, value) items in      *)
(* insertion order.                                                        *)
(***************************************************************************)
EXTENDS Integers, Sequences, FiniteSets, TLC

VARIABLES
    \* ---- URL key function applied to two URLs
    kpc,              \* "in" before the keys are computed, "out" after, "idle"
    urlA, urlB,       \* the url fields of two records
    keyA, keyB,       \* their unique_url
    \* ---- combine_manual_scrapes
    dataset,          \* which data directory the run reads (fixes the inputs)
    pc,               \* "files" | "records" | "done" | "noinput" | "crashed" | "idle"
    filename,         \* name of the file being read
    file_category,    \* extract_category_from_filename(filename)
    products_by_url,  \* the dict: sequence of [key, rec, srcs]; srcs is the
                      \* history of the records consumed under that key
    all_products,     \* the list written to the combined file
    nread,            \* elements consumed so far (bounds the run)
    nfiles,           \* files opened so far (bounds the run)
    last,             \* what the last step did, and with which input
    prev,             \* products_by_url before the last step
    \* ---- the upload scripts and insert_products_batch
    script,           \* "upload_data" | "clear_and_upload_auto" | "clear_brand_and_upload"
    upc,              \* "start" | "load" | "batch" | "done" | "failed" | "idle"
    store,            \* the rows of the products table
    products,         \* the list loaded from the json file
    bstart,           \* index of the first product of the current batch
    bpos,             \* index of the product insert_products_batch is at
    successful,       \* the list insert_products_batch returns
    total_uploaded,   \* the total the script prints
    attempts,         \* indices of the products handed to insert(), in order
    accepted,         \* number of inserts the store accepted
    ulast,            \* what the last step of the upload did
    prev_store,       \* store before the last step
    \* ---- fix_categories
    fpc,              \* "idle" | "saved" | "raised"
    fixed_products,   \* the list written to the _fixed_categories file
    \* ---- merge_colors
    mpc,              \* "idle" | "start" | "updating" | "finished" | "crashed"
    new_products,     \* the records of the scraped files
    mstore,           \* the rows of the products table merge_colors works on
    updates_needed,   \* the updates the scan of a run collected
    upos,             \* index of the update the run is at
    mrun,             \* number of the run
    mlog              \* the updates issued so far: run, row id, outcome

keyvars == <<kpc, urlA, urlB, keyA, keyB>>
combvars == <<dataset, pc, filename, file_category, products_by_url, all_products, nread, nfiles, last, prev>>
upvars == <<script, upc, store, products, bstart, bpos, successful, total_uploaded,
            attempts, accepted, ulast, prev_store>>
fixvars == <<fpc, fixed_products>>
mcvars == <<mpc, new_products, mstore, updates_needed, upos, mrun, mlog>>
vars == <<keyvars, combvars, upvars, fixvars, mcvars>>

-----------------------------------------------------------------------------
(* Python strings *)

Char(s, i) == SubSeq(s, i, i)

\* Python: sub in s
\* index of the first occurrence of sub in s, 0 when there is none
\* Python: sub in s
Contains(s, sub) ==
    \E i \in 1..(Len(s) - Len(sub) + 1) : SubSeq(s, i, i + Len(sub) - 1) = sub

\* index of the first occurrence of sub in s, 0 when there is none
Find(s, sub) ==
    LET at == {i \in 1..(Len(s) - Len(sub) + 1) : SubSeq(s, i, i + Len(sub) - 1) = sub}
    IN  IF at = {} THEN 0 ELSE CHOOSE i \in at : \A j \in at : i <= j

\* Python: s.split(sep)[0]
SplitHead(s, sep) ==
    LET i == Find(s, sep) IN IF i = 0 THEN s ELSE SubSeq(s, 1, i - 1)

\* the text after the first occurrence of sep (sep occurs in s)
AfterFirst(s, sep) == SubSeq(s, Find(s, sep) + Len(sep), Len(s))

\* Python: s.split(sep)[1]  (sep occurs in s)
SplitSecond(s, sep) == SplitHead(AfterFirst(s, sep), sep)

UpperChars == "ABCDEFGHIJKLMNOPQRSTUVWXYZ"
LowerChars == "abcdefghijklmnopqrstuvwxyz"

UpperSet == {Char(UpperChars, i) : i \in 1..Len(UpperChars)}
LowerOf == [c \in UpperSet |-> Char(LowerChars, Find(UpperChars, c))]
LowerChar(c) == IF c \in UpperSet THEN LowerOf[c] ELSE c

\* Python: s.lower()
RECURSIVE lower(_)
lower(s) ==
    IF s = "" THEN ""
    ELSE IF \A i \in 1..Len(s) : Char(s, i) \notin UpperSet THEN s
    ELSE LowerChar(Char(s, 1)) \o lower(SubSeq(s, 2, Len(s)))

Digits == "0123456789"

\* Python: str(n) for an int n
RECURSIVE IntStr(_)
IntStr(n) ==
    IF n < 0 THEN "-" \o IntStr(0 - n)
    ELSE IF n < 10 THEN Char(Digits, n + 1)
    ELSE IntStr(n \div 10) \o Char(Digits, (n % 10) + 1)

-----------------------------------------------------------------------------
(* JSON values as Python sees them *)

Null == [t |-> "null", v |-> 0]
Str(s) == [t |-> "str", v |-> s]
Lst(l) == [t |-> "list", v |-> l]      \* l: a sequence of values
Num(n) == [t |-> "num", v |-> n]
Bool(b) == [t |-> "bool", v |-> b]

IsStr(x) == x.t = "str"
IsList(x) == x.t = "list"

\* Python truth value: None, "", [], 0 and False are falsy
Truthy(x) ==
    CASE x.t = "null" -> FALSE
      [] x.t = "str" -> x.v # ""
      [] x.t = "list" -> x.v # <<>>
      [] x.t = "num" -> x.v # 0
      [] x.t = "bool" -> x.v

\* Python: len(x) is defined for strings and lists only
HasLen(x) == x.t \in {"str", "list"}
PyLen(x) == Len(x.v)

\* Python: repr(x) / str(x); they differ on strings only
RECURSIVE PyRepr(_)
RECURSIVE JoinRepr(_)
JoinRepr(l) ==
    IF l = <<>> THEN ""
    ELSE IF Len(l) = 1 THEN PyRepr(l[1])
    ELSE PyRepr(l[1]) \o ", " \o JoinRepr(Tail(l))
PyRepr(x) ==
    CASE x.t = "null" -> "None"
      [] x.t = "str" -> "'" \o x.v \o "'"
      [] x.t = "list" -> "[" \o JoinRepr(x.v) \o "]"
      [] x.t = "num" -> IntStr(x.v)
      [] x.t = "bool" -> IF x.v THEN "True" ELSE "False"

PyStr(x) == IF x.t = "str" THEN x.v ELSE PyRepr(x)

-----------------------------------------------------------------------------
(* Python dicts: sequences of items [k, v], insertion-ordered *)

Has(d, k) == \E i \in 1..Len(d) : d[i].k = k

\* d.get(k): None when the key is absent
Get(d, k) == IF Has(d, k) THEN d[CHOOSE i \in 1..Len(d) : d[i].k = k].v ELSE Null

\* d.get(k, dflt)
GetOr(d, k, dflt) == IF Has(d, k) THEN Get(d, k) ELSE dflt

\* d[k] = x: in place when the key exists, appended otherwise
Put(d, k, x) ==
    IF Has(d, k)
    THEN [i \in 1..Len(d) |-> IF d[i].k = k THEN [k |-> k, v |-> x] ELSE d[i]]
    ELSE Append(d, [k |-> k, v |-> x])

\* del d[k]
Del(d, k) == SelectSeq(d, LAMBDA it : it.k # k)

\* if k not in d: d[k] = x
SetDefault(d, k, x) == IF Has(d, k) THEN d ELSE Put(d, k, x)

-----------------------------------------------------------------------------
(* combine_manual_scrapes.py: the pure parts *)

\* extract_category_from_filename(filename): a category, or None
extract_category_from_filename(fname) ==
    LET filename_lower == lower(fname) IN
    IF Contains(filename_lower, "accessories") THEN Str("Accessories")
    ELSE IF Contains(filename_lower, "outerwear") \/ Contains(filename_lower, "jackets")
        THEN Str("Outerwear")
    ELSE IF Contains(filename_lower, "shorts") THEN Str("Shorts")
    ELSE IF Contains(filename_lower, "bottoms") \/ Contains(filename_lower, "pants")
        THEN Str("Bottoms")
    ELSE IF Contains(filename_lower, "tops") \/ Contains(filename_lower, "shirts")
        THEN Str("Tops")
    ELSE IF Contains(filename_lower, "leggings") THEN Str("Leggings")
    ELSE IF Contains(filename_lower, "bras") \/ Contains(filename_lower, "sports-bras")
        THEN Str("Sports Bras")
    ELSE Null

\* base_url = url.split('?')[0]
base_url(url) == SplitHead(url, "?")

\* the variant test of line 98
HasVariantParam(url) == Contains(url, "?variant=")

\* variant_param = url.split('?variant=')[1].split('&')[0]
variant_param(url) == SplitHead(SplitSecond(url, "?variant="), "&")

\* unique_url: the key of a record in products_by_url (url is a str)
unique_url(url) ==
    IF HasVariantParam(url)
    THEN base_url(url) \o "?variant=" \o variant_param(url)
    ELSE base_url(url)

\* a test that asks for the url only
IsDroppedUrlOnly(product) == ~Truthy(Get(product, "url"))

\* line 88: a record without url or product_id is skipped
IsDropped(product) == ~Truthy(Get(product, "url")) \/ ~Truthy(Get(product, "product_id"))

\* lines 92-93: the category of the file name fills an unset category
StampCategory(product, fcat) ==
    IF Truthy(fcat) /\ ~Truthy(Get(product, "category"))
    THEN Put(product, "category", fcat)
    ELSE product

\* line 110: len() of a truthy number or flag raises TypeError
MergeRaises(existing, key, value) ==
    /\ Truthy(value)
    /\ Truthy(Get(existing, key))
    /\ IsList(value)
    /\ ~HasLen(Get(existing, key))

\* a merge that only fills empty fields and never prefers the longer value
MergeTakesEmptyOnly(existing, key, value) ==
    Truthy(value) /\ ~Truthy(Get(existing, key))

\* a merge that does not ask whether the incoming value is empty
MergeTakesAnyValue(existing, key, value) ==
    \/ ~Truthy(Get(existing, key))
    \/ /\ IsList(value)
       /\ HasLen(Get(existing, key))
       /\ PyLen(value) > PyLen(Get(existing, key))
    \/ /\ IsStr(value)
       /\ PyLen(value) > Len(PyStr(Get(existing, key)))

\* lines 109-111: whether existing[key] = value is executed
MergeTakes(existing, key, value) ==
    /\ Truthy(value)
    /\ \/ ~Truthy(Get(existing, key))
       \/ /\ IsList(value)
          /\ HasLen(Get(existing, key))
          /\ PyLen(value) > PyLen(Get(existing, key))
       \/ /\ IsStr(value)
          /\ PyLen(value) > Len(PyStr(Get(existing, key)))

\* lines 108-112: the loop over product.items(); it stops where len() raises
RECURSIVE MergeItems(_, _)
MergeItems(existing, items) ==
    IF items = <<>> THEN [d |-> existing, err |-> FALSE]
    ELSE IF MergeRaises(existing, items[1].k, items[1].v)
        THEN [d |-> existing, err |-> TRUE]
    ELSE MergeItems(IF MergeTakes(existing, items[1].k, items[1].v)
                    THEN Put(existing, items[1].k, items[1].v)
                    ELSE existing,
                    Tail(items))

\* lines 113-115: the category of the file name overrides the merged one
OverrideCategory(existing, fcat) ==
    IF Truthy(fcat) THEN Put(existing, "category", fcat) ELSE existing

\* lines 104-116: merge product into existing
Merge(existing, product, fcat) ==
    LET m == MergeItems(existing, product) IN
    IF m.err THEN m ELSE [d |-> OverrideCategory(m.d, fcat), err |-> FALSE]

AccessoriesWords ==
    <<"accessories", "beanie", "hat", "cap", "sock", "glove", "belt", "bag",
      "backpack", "headband", "wristband", "towel", "gift", "collar", "cup",
      "candle", "paddle", "bottle">>
OuterwearWords ==
    <<"jacket", "hoodie", "vest", "fleece", "blazer", "coat", "pullover",
      "quarter-zip", "half-zip", "full-zip", "puffer">>
SportsBrasWords == <<"bra", "sports-bra", "sportsbra">>
BottomsWords ==
    <<"pant", "jogger", "bottom", "sweatpant", "trouser", "commuter", "chino",
      "swift", "tight">>
TopsWords ==
    <<"shirt", "tee", "t-shirt", "tank", "polo", "top", "henley", "crew",
      "v-neck", "sleeve", "crewneck", "mock-neck", "sweater">>

\* any(x in url or x in name for x in words)
AnyIn(words, url, name) ==
    \E i \in 1..Len(words) : Contains(url, words[i]) \/ Contains(name, words[i])

\* a cascade that tests the Bottoms group before the Shorts group
CascadeBottomsFirst(url, name) ==
    IF AnyIn(AccessoriesWords, url, name) THEN "Accessories"
    ELSE IF AnyIn(OuterwearWords, url, name)
        THEN IF Contains(name, "short") /\ Contains(name, "sleeve") /\ ~Contains(name, "jacket")
             THEN "Tops" ELSE "Outerwear"
    ELSE IF AnyIn(SportsBrasWords, url, name) THEN "Sports Bras"
    ELSE IF Contains(url, "legging") \/ Contains(name, "legging") THEN "Leggings"
    ELSE IF AnyIn(BottomsWords, url, name) THEN "Bottoms"
    ELSE IF Contains(url, "short") \/ (Contains(name, "short") /\ ~Contains(name, "sleeve"))
        THEN "Shorts"
    ELSE "Tops"

\* lines 179-205: the keyword cascade on the lower-cased url and name
CascadeCategory(url, name) ==
    IF AnyIn(AccessoriesWords, url, name) THEN "Accessories"
    ELSE IF AnyIn(OuterwearWords, url, name)
        THEN IF Contains(name, "short") /\ Contains(name, "sleeve") /\ ~Contains(name, "jacket")
             THEN "Tops" ELSE "Outerwear"
    ELSE IF AnyIn(SportsBrasWords, url, name) THEN "Sports Bras"
    ELSE IF Contains(url, "legging") \/ Contains(name, "legging") THEN "Leggings"
    ELSE IF Contains(url, "short") \/ (Contains(name, "short") /\ ~Contains(name, "sleeve"))
        THEN "Shorts"
    ELSE IF AnyIn(BottomsWords, url, name) THEN "Bottoms"
    ELSE IF AnyIn(TopsWords, url, name) THEN "Tops"
    ELSE "Tops"

\* a placeholder test that forgets 'Other'
NeedsCategoryNoOther(product) ==
    \/ ~Truthy(Get(product, "category"))
    \/ Get(product, "category") = Str("null")

\* a test that sends every record through the cascade
NeedsCategoryAlways(product) == TRUE

\* line 171: the category is missing or a placeholder
NeedsCategory(product) ==
    \/ ~Truthy(Get(product, "category"))
    \/ Get(product, "category") = Str("null")
    \/ Get(product, "category") = Str("Other")

\* lines 172-173 and 208: .lower() of a value that is no str raises AttributeError
LowerRaises(product, key) == ~IsStr(GetOr(product, key, Str("")))

\* lines 136-149 and 162-163: the defaults
FillDefaults(product, now) ==
    LET p1 == SetDefault(product, "scraped_at", Str(now))
        p2 == SetDefault(p1, "currency", Str("USD"))
        p3 == SetDefault(p2, "colors", Lst(<<>>))
        p4 == SetDefault(p3, "sizes", Lst(<<>>))
    IN  SetDefault(p4, "fabrics", Lst(<<>>))

\* images rebuilt from image without the test of line 152
FixImagesNoGuard(product) ==
    Del(IF Has(product, "image") /\ Truthy(Get(product, "image"))
        THEN Put(product, "images", Lst(<<Get(product, "image")>>))
        ELSE Put(product, "images", Lst(<<>>)),
        "image")

\* lines 151-160: images from image, and image removed
FixImages(product) ==
    LET p1 == IF Has(product, "images") THEN product
              ELSE IF Has(product, "image") /\ Truthy(Get(product, "image"))
                   THEN Put(product, "images", Lst(<<Get(product, "image")>>))
                   ELSE Put(product, "images", Lst(<<>>))
    IN  Del(p1, "image")

\* a rename that leaves a record alone when it already has a price
FixPriceUnlessPriced(product) ==
    IF Has(product, "original_price") /\ ~Has(product, "price")
    THEN Del(Put(product, "price", Get(product, "original_price")), "original_price")
    ELSE product

\* lines 165-168: original_price renamed to price
FixPrice(product) ==
    IF Has(product, "original_price")
    THEN Del(Put(product, "price", Get(product, "original_price")), "original_price")
    ELSE product

\* lines 170-205: infer the category when it is missing
FixCategory(product) ==
    IF NeedsCategory(product)
    THEN Put(product, "category",
             Str(CascadeCategory(lower(GetOr(product, "url", Str("")).v),
                                 lower(GetOr(product, "name", Str("")).v))))
    ELSE product

\* a gender step that keeps a gender the record already has
FixGenderIfUnset(product) ==
    LET url == lower(GetOr(product, "url", Str("")).v) IN
    IF Truthy(Get(product, "gender")) THEN product
    ELSE IF Contains(url, "womens") \/ Contains(url, "/women") THEN Put(product, "gender", Str("Women"))
    ELSE IF Contains(url, "mens") \/ Contains(url, "/men") THEN Put(product, "gender", Str("Men"))
    ELSE product

\* a gender step that also reads the name
FixGenderFromName(product) ==
    LET url == lower(GetOr(product, "url", Str("")).v)
        name == IF IsStr(Get(product, "name")) THEN lower(Get(product, "name").v) ELSE ""
    IN
    IF Contains(url, "womens") \/ Contains(url, "/women") \/ Contains(name, "womens")
        THEN Put(product, "gender", Str("Women"))
    ELSE IF Contains(url, "mens") \/ Contains(url, "/men") \/ Contains(name, "mens")
        THEN Put(product, "gender", Str("Men"))
    ELSE product

\* lines 207-212: gender from the url
FixGender(product) ==
    LET url == lower(GetOr(product, "url", Str("")).v) IN
    IF Contains(url, "womens") \/ Contains(url, "/women") THEN Put(product, "gender", Str("Women"))
    ELSE IF Contains(url, "mens") \/ Contains(url, "/men") THEN Put(product, "gender", Str("Men"))
    ELSE product

\* lines 172-173 and 208 run outside the try: a url, or the name of a product
\* that needs a category, that is no str makes the run raise
NormalizeRaises(product) ==
    \/ LowerRaises(product, "url")
    \/ NeedsCategory(product) /\ LowerRaises(product, "name")

\* lines 134-214: the clean-up of one product
Normalize(product, now) ==
    LET p1 == FixImages(FillDefaults(product, now))
        p2 == SetDefault(p1, "is_best_seller", Bool(FALSE))
    IN  FixGender(FixCategory(FixPrice(p2)))

-----------------------------------------------------------------------------
(* combine_manual_scrapes: the loop over the files and their records *)

\* a dict looked up by the raw url of its records instead of their key
KeyIndexByUrl(pbu, key) ==
    IF \E i \in 1..Len(pbu) : Get(pbu[i].rec, "url") = Str(key)
    THEN CHOOSE i \in 1..Len(pbu) : Get(pbu[i].rec, "url") = Str(key)
    ELSE 0

\* line 105: the position of key in products_by_url, 0 when it is not in it
KeyIndex(pbu, key) == IF \E i \in 1..Len(pbu) : pbu[i].key = key
                      THEN CHOOSE i \in 1..Len(pbu) : pbu[i].key = key
                      ELSE 0

NoRec == <<>>
Step(op, rec, key) == [op |-> op, rec |-> rec, key |-> key]

\* lines 83-119: one product of a file; the result is the new dict, whether
\* the step raised (the except of line 123 then ends the file), and what it did
ProcessProduct(pbu, fname, fcat, product) ==
    LET src == [rec |-> product, file |-> fname] IN
    IF IsDropped(product)
    THEN [pbu |-> pbu, raised |-> FALSE, step |-> Step("drop", product, "")]
    ELSE IF ~IsStr(Get(product, "url"))
    THEN [pbu |-> pbu, raised |-> TRUE, step |-> Step("urlraise", product, "")]
    ELSE
      LET stamped == StampCategory(product, fcat)
          key == unique_url(Get(product, "url").v)
          i == KeyIndex(pbu, key)
      IN
      IF i # 0
      THEN LET m == Merge(pbu[i].rec, stamped, fcat) IN
           [pbu |-> [pbu EXCEPT ![i] = [key |-> key, rec |-> m.d,
                                         srcs |-> Append(pbu[i].srcs, src)]],
            raised |-> m.err,
            step |-> Step(IF m.err THEN "mergeraise" ELSE "merge", product, key)]
      ELSE [pbu |-> Append(pbu, [key |-> key, rec |-> stamped, srcs |-> <<src>>]),
            raised |-> FALSE,
            step |-> Step("new", product, key)]

\* lines 61-78: the next file is opened and holds a JSON array
OpenFile(fname) ==
    /\ pc = "files"
    /\ pc' = "records"
    /\ filename' = fname
    /\ file_category' = extract_category_from_filename(fname)
    /\ nfiles' = nfiles + 1
    /\ last' = Step("open", NoRec, "")
    /\ prev' = products_by_url
    /\ UNCHANGED <<dataset, products_by_url, all_products, nread>>

\* lines 77-78: the next file holds one JSON object, read as a one-element list
OpenDictFile(fname, product) ==
    /\ pc = "files"
    /\ filename' = fname
    /\ file_category' = extract_category_from_filename(fname)
    /\ \E r \in {ProcessProduct(products_by_url, fname, file_category', product)} :
        /\ products_by_url' = r.pbu
        /\ last' = r.step
    /\ nfiles' = nfiles + 1
    /\ nread' = nread + 1
    /\ prev' = products_by_url
    /\ UNCHANGED <<dataset, pc, all_products>>

\* a bad file that makes the run forget what it has accumulated
BadFileDropsAll(fname) ==
    /\ pc = "files"
    /\ filename' = fname
    /\ file_category' = extract_category_from_filename(fname)
    /\ nfiles' = nfiles + 1
    /\ products_by_url' = <<>>
    /\ last' = Step("badfile", NoRec, "")
    /\ prev' = products_by_url
    /\ UNCHANGED <<dataset, pc, all_products, nread>>

\* lines 79-81 and 121-122: the next file is no JSON, or neither array nor object
BadFile(fname) ==
    /\ pc = "files"
    /\ filename' = fname
    /\ file_category' = extract_category_from_filename(fname)
    /\ nfiles' = nfiles + 1
    /\ last' = Step("badfile", NoRec, "")
    /\ prev' = products_by_url
    /\ UNCHANGED <<dataset, pc, products_by_url, all_products, nread>>

\* a read that goes on with the file after a record raised
ReadProductGoesOn(product) ==
    /\ pc = "records"
    /\ \E r \in {ProcessProduct(products_by_url, filename, file_category, product)} :
        /\ products_by_url' = r.pbu
        /\ last' = r.step
    /\ nread' = nread + 1
    /\ prev' = products_by_url
    /\ UNCHANGED <<dataset, pc, filename, file_category, all_products, nfiles>>

\* lines 83-119: the next element of the file is an object
ReadProduct(product) ==
    /\ pc = "records"
    /\ \E r \in {ProcessProduct(products_by_url, filename, file_category, product)} :
        /\ products_by_url' = r.pbu
        /\ last' = r.step
        /\ pc' = IF r.raised THEN "files" ELSE "records"
    /\ nread' = nread + 1
    /\ prev' = products_by_url
    /\ UNCHANGED <<dataset, filename, file_category, all_products, nfiles>>

\* line 85 on an element that is no object: .get raises, the file is left
ReadNonObject ==
    /\ pc = "records"
    /\ pc' = "files"
    /\ nread' = nread + 1
    /\ last' = Step("nonobject", NoRec, "")
    /\ prev' = products_by_url
    /\ UNCHANGED <<dataset, filename, file_category, products_by_url, all_products, nfiles>>

\* the file has no further element
EndFile ==
    /\ pc = "records"
    /\ pc' = "files"
    /\ last' = Step("endfile", NoRec, "")
    /\ prev' = products_by_url
    /\ UNCHANGED <<dataset, filename, file_category, products_by_url, all_products, nread, nfiles>>

\* lines 126-221: after the last file; every product is cleaned up and the list
\* is written, unless there is no product, or a clean-up raises
Finish(now) ==
    /\ pc = "files"
    /\ IF products_by_url = <<>>
       THEN pc' = "noinput" /\ all_products' = <<>>
       ELSE IF \E i \in 1..Len(products_by_url) : NormalizeRaises(products_by_url[i].rec)
       THEN pc' = "crashed" /\ all_products' = <<>>
       ELSE /\ pc' = "done"
            /\ all_products' = [i \in 1..Len(products_by_url) |->
                                  Normalize(products_by_url[i].rec, now)]
    /\ last' = Step("finish", NoRec, "")
    /\ prev' = products_by_url
    /\ UNCHANGED <<dataset, filename, file_category, products_by_url, nread, nfiles>>

\* datetime.now().isoformat() at two moments
Clock == {"2025-11-12T21:16:40", "2025-11-12T21:16:41"}

CombineIdle ==
    /\ dataset = "none"
    /\ pc = "idle"
    /\ filename = ""
    /\ file_category = Null
    /\ products_by_url = <<>>
    /\ all_products = <<>>
    /\ nread = 0
    /\ nfiles = 0
    /\ last = Step("idle", NoRec, "")
    /\ prev = <<>>

-----------------------------------------------------------------------------
(* The URL key applied to the urls of two records *)

MaxParams == 2

KeyBase == "https://x.test/p/item"
KeyParams == {"scrollTo=top", "variant=9", "variant=8"}

\* the query strings of at most n parameters
RECURSIVE Queries(_)
Queries(n) ==
    IF n = 0 THEN {""}
    ELSE Queries(n - 1) \cup
         {IF q = "" THEN "?" \o p ELSE q \o "&" \o p :
            q \in (Queries(n - 1) \ {""}) \cup {""}, p \in KeyParams}

KeyUrls == {KeyBase \o q : q \in Queries(MaxParams)}

KeyIdle ==
    /\ kpc = "idle"
    /\ urlA = ""
    /\ urlB = ""
    /\ keyA = ""
    /\ keyB = ""

\* lines 95-102 on both records
ComputeKeys ==
    /\ kpc = "in"
    /\ kpc' = "out"
    /\ keyA' = unique_url(urlA)
    /\ keyB' = unique_url(urlB)
    /\ UNCHANGED <<urlA, urlB>>

KeyNext == ComputeKeys /\ UNCHANGED <<combvars, upvars, fixvars, mcvars>>

-----------------------------------------------------------------------------------------------------------------------------------------------------
(* Inputs: the data directories the runs read *)

It(k, x) == [k |-> k, v |-> x]
StrList(l) == Lst([i \in 1..Len(l) |-> Str(l[i])])

GenericFile == "rhone_products_mens-view-all_1.json"
AccessoriesFile == "rhone_products_womens-accessories_2.json"

\* the two records of the end-to-end scenario
JoggerImages ==
    <<It("url", Str("https://s/p/a?x=1")), It("product_id", Str("1")),
      It("images", StrList(<<"i1.jpg">>)), It("colors", StrList(<<"Black">>))>>
JoggerNamed ==
    <<It("url", Str("https://s/p/a?x=2")), It("product_id", Str("1")),
      It("name", Str("Jogger")), It("colors", StrList(<<"Black", "Navy">>))>>

\* records that differ in their urls
DedupProducts ==
    { JoggerImages, JoggerNamed,
      <<It("url", Str("https://s/p/a?variant=9")), It("product_id", Str("2")),
        It("name", Str("Jogger Nine"))>>,
      <<It("url", Str("https://s/p/a?variant=9&x=12")), It("product_id", Str("2"))>>,
      <<It("url", Str("https://s/p/a?x=1&variant=8")), It("product_id", Str("3")),
        It("name", Str("Jogger Eight"))>>,
      <<It("url", Str("https://s/p/b?variant=8")), It("product_id", Str("4")),
        It("name", Str("Tee"))>>,
      <<It("url", Str("https://s/p/a")), It("name", Str("No Id"))>>,
      <<It("url", Num(5)), It("product_id", Str("5"))>> }

\* records that differ in category, name, images and prices
NormProducts ==
    { <<It("url", Str("https://s/mens/p/a")), It("product_id", Str("1")),
        It("name", Str("Quarter-Zip Pullover")), It("category", Str("Other")),
        It("image", Str("i1.jpg")), It("original_price", Num(98))>>,
      <<It("url", Str("https://s/mens/p/a?x=1")), It("product_id", Str("1")),
        It("name", Str("Quarter-Zip Short Sleeve Pullover")), It("category", Str("Layers")),
        It("images", Str("i2.jpg")), It("price", Num(88))>>,
      <<It("url", Str("https://s/womens/p/b")), It("product_id", Str("2")),
        It("category", Null), It("images", StrList(<<"i3.jpg", "i4.jpg">>)),
        It("image", Str("i3.jpg")), It("gender", Str("Men"))>>,
      <<It("url", Str("https://s/p/b")), It("product_id", Str("3")),
        It("name", Null), It("category", Str("null"))>>,
      <<It("url", Str("https://s/p/c")), It("product_id", Str("4")),
        It("name", Str("")), It("category", Str("")), It("images", Null),
        It("image", Str(""))>>,
      <<It("url", Str("https://s/p/c?x=1")), It("product_id", Str("4")),
        It("name", Str("Swift Short")), It("category", Str("null")),
        It("original_price", Num(10)), It("price", Num(12))>>,
      <<It("url", Str("https://s/p/d")), It("product_id", Num(5)),
        It("name", Str("Tee")), It("category", Num(7))>> }

\* records of a directory whose combined file is uploaded afterwards
PipeProducts ==
    { JoggerImages, JoggerNamed,
      <<It("url", Str("https://s/p/b")), It("product_id", Str("2")), It("name", Str(""))>> }

\* records of one product page whose fields differ in emptiness, length and type
MTee ==
    <<It("url", Str("https://s/p/m")), It("product_id", Str("1")),
      It("name", Str("Tee")), It("colors", StrList(<<"Black">>)),
      It("price", Num(98)), It("category", Str("Tops"))>>
MTeeLong ==
    <<It("url", Str("https://s/p/m?x=2")), It("product_id", Str("1")),
      It("name", Str("Tee Long")), It("colors", StrList(<<"Black", "Navy">>)),
      It("price", Str("98.00")), It("category", Str("Performance Tops"))>>
MEmpty ==
    <<It("url", Str("https://s/p/m?x=3")), It("product_id", Str("1")),
      It("name", Str("")), It("colors", Lst(<<>>)),
      It("price", Null), It("category", Str(""))>>
MFalsy ==
    <<It("url", Str("https://s/p/m?x=4")), It("product_id", Str("1")),
      It("price", Num(0)), It("in_stock", Bool(FALSE))>>
MSizesNum ==
    <<It("url", Str("https://s/p/m?x=5")), It("product_id", Str("1")),
      It("sizes", Num(5)), It("name", Str("Tee")), It("colors", StrList(<<"Black">>))>>
MSizesList ==
    <<It("url", Str("https://s/p/m?x=6")), It("product_id", Str("1")),
      It("sizes", StrList(<<"S", "M">>)), It("name", Str("Tee Long")),
      It("colors", StrList(<<"Black", "Navy">>)), It("fabrics", StrList(<<"Cotton">>))>>
MStock ==
    <<It("url", Str("https://s/p/m?x=7")), It("product_id", Str("1")),
      It("in_stock", Bool(TRUE)), It("price", Num(120))>>

MergeProducts == {MTee, MTeeLong, MEmpty, MFalsy, MSizesNum, MSizesList, MStock}

\* records without a usable category whose names and urls hold the keywords
\* of several groups, and whose gender agrees or not with the url
ClassifyProducts ==
    { <<It("url", Str("https://s/womens/p/qz1")), It("product_id", Str("1")),
        It("name", Str("Quarter-Zip Short Sleeve Pullover")), It("category", Str("Other"))>>,
      <<It("url", Str("https://s/mens/p/qz-bra")), It("product_id", Str("2")),
        It("name", Str("Quarter-Zip Pullover")), It("gender", Str("Women"))>>,
      <<It("url", Str("https://s/p/short-sleeve-tee")), It("product_id", Str("3")),
        It("name", Str("Short Sleeve Tee")), It("gender", Str("Unisex"))>>,
      <<It("url", Str("https://s/p/j1")), It("product_id", Str("4")),
        It("name", Str("Short Sleeve Jacket")), It("category", Str("null"))>>,
      <<It("url", Str("https://s/women/p/js")), It("product_id", Str("5")),
        It("name", Str("Jogger Short")), It("gender", Str("Men"))>>,
      <<It("url", Str("https://s/p/legging-short")), It("product_id", Str("6")),
        It("name", Str("Legging Bra")), It("category", Str(""))>>,
      <<It("url", Str("https://s/p/vb")), It("product_id", Str("7")),
        It("name", Str("Vest Bag")), It("gender", Null)>>,
      <<It("url", Str("https://s/p/st")), It("product_id", Str("8")),
        It("name", Str("Mens Swift Tank"))>> }

\* a record, a record of the same page whose merge raises at sizes after url
\* and name were compared, and a record of another page
PartialProducts ==
    { <<It("url", Str("https://s/p/m")), It("product_id", Str("1")),
        It("name", Str("Tee")), It("sizes", Num(5)), It("colors", StrList(<<"Black">>))>>,
      <<It("url", Str("https://s/p/m?x=2")), It("product_id", Str("1")),
        It("name", Str("Tee Long")), It("sizes", StrList(<<"S", "M">>)),
        It("colors", StrList(<<"Black", "Navy">>))>>,
      <<It("url", Str("https://s/p/n")), It("product_id", Str("2")),
        It("name", Str("Polo"))>> }

MaxFiles == 2
MaxReads == 2

\* the elements the files of a data directory may hold
Products == [dedup |-> DedupProducts, norm |-> NormProducts, pipe |-> PipeProducts,
             merge |-> MergeProducts, classify |-> ClassifyProducts,
             partial |-> PartialProducts]
\* the names of its files
FileNames == [dedup |-> {GenericFile, AccessoriesFile},
              norm |-> {GenericFile, AccessoriesFile},
              pipe |-> {GenericFile},
              merge |-> {GenericFile, AccessoriesFile},
              classify |-> {GenericFile},
              partial |-> {GenericFile, AccessoriesFile}]
\* the most files and elements a run reads
FileBound == [dedup |-> MaxFiles, norm |-> MaxFiles, pipe |-> MaxFiles, merge |-> MaxFiles,
              classify |-> MaxFiles, partial |-> MaxFiles]
ReadBound == [dedup |-> MaxReads, norm |-> MaxReads, pipe |-> MaxReads, merge |-> MaxReads,
              classify |-> MaxReads, partial |-> MaxReads + 1]

CombineInit(ds) ==
    /\ dataset = ds
    /\ pc = "files"
    /\ filename = ""
    /\ file_category = Null
    /\ products_by_url = <<>>
    /\ all_products = <<>>
    /\ nread = 0
    /\ nfiles = 0
    /\ last = Step("start", NoRec, "")
    /\ prev = <<>>

OpenNext ==
    /\ nfiles < FileBound[dataset]
    /\ \E fname \in FileNames[dataset] : OpenFile(fname)
    /\ UNCHANGED <<keyvars, upvars, fixvars, mcvars>>
OpenDictNext ==
    /\ nfiles < FileBound[dataset]
    /\ nread < ReadBound[dataset]
    /\ \E fname \in FileNames[dataset] : \E product \in Products[dataset] :
          OpenDictFile(fname, product)
    /\ UNCHANGED <<keyvars, upvars, fixvars, mcvars>>
BadFileNext ==
    /\ nfiles < FileBound[dataset]
    /\ \E fname \in FileNames[dataset] : BadFile(fname)
    /\ UNCHANGED <<keyvars, upvars, fixvars, mcvars>>
ReadNext ==
    /\ nread < ReadBound[dataset]
    /\ \E product \in Products[dataset] : ReadProduct(product)
    /\ UNCHANGED <<keyvars, upvars, fixvars, mcvars>>
NonObjectNext ==
    /\ nread < ReadBound[dataset]
    /\ ReadNonObject
    /\ UNCHANGED <<keyvars, upvars, fixvars, mcvars>>
EndFileNext == EndFile /\ UNCHANGED <<keyvars, upvars, fixvars, mcvars>>
FinishNext == (\E now \in Clock : Finish(now)) /\ UNCHANGED <<keyvars, upvars, fixvars, mcvars>>

CombineNext ==
    \/ OpenNext
    \/ OpenDictNext
    \/ BadFileNext
    \/ ReadNext
    \/ NonObjectNext
    \/ EndFileNext
    \/ FinishNext

-----------------------------------------------------------------------------
(* database/supabase_client.py and the upload scripts *)

\* json.dumps(x)
RECURSIVE JsonText(_)
RECURSIVE JoinJson(_)
JoinJson(l) ==
    IF l = <<>> THEN ""
    ELSE IF Len(l) = 1 THEN JsonText(l[1])
    ELSE JsonText(l[1]) \o ", " \o JoinJson(Tail(l))
JsonText(x) ==
    CASE x.t = "null" -> "null"
      [] x.t = "str" -> "\"" \o x.v \o "\""
      [] x.t = "list" -> "[" \o JoinJson(x.v) \o "]"
      [] x.t = "num" -> IntStr(x.v)
      [] x.t = "bool" -> IF x.v THEN "true" ELSE "false"

JsonColumns == <<"colors", "sizes", "fabrics", "images", "badges">>

RECURSIVE DumpColumns(_, _)
DumpColumns(product, cols) ==
    IF cols = <<>> THEN product
    ELSE DumpColumns(IF Has(product, cols[1]) /\ IsList(Get(product, cols[1]))
                     THEN Put(product, cols[1], Str(JsonText(Get(product, cols[1]))))
                     ELSE product,
                     Tail(cols))

\* lines 81-96: the copy handed to insert(), its list columns as JSON text
product_copy(product) == DumpColumns(product, JsonColumns)

\* line 76: a product without a name is skipped
HasName(product) == Truthy(Get(product, "name"))

\* the unique constraint of the products table, on product_id
Conflicts(rows, row) ==
    /\ Truthy(Get(row, "product_id"))
    /\ \E i \in 1..Len(rows) : Get(rows[i], "product_id") = Get(row, "product_id")

\* upsert(row, on_conflict="product_id"): the row of that product_id is replaced
StoreUpsert(rows, row) ==
    IF Conflicts(rows, row)
    THEN [ok |-> TRUE,
          rows |-> [i \in 1..Len(rows) |->
                      IF Get(rows[i], "product_id") = Get(row, "product_id")
                      THEN row ELSE rows[i]]]
    ELSE [ok |-> TRUE, rows |-> Append(rows, row)]

\* line 100: insert(row); it fails on a duplicate and leaves the table as it is
StoreInsert(rows, row) ==
    IF Conflicts(rows, row)
    THEN [ok |-> FALSE, rows |-> rows]
    ELSE [ok |-> TRUE, rows |-> Append(rows, row)]

\* delete().neq("id", 0): every row (the ids of the table start at 1)
delete_all_products(rows) == <<>>

\* delete().eq("brand", brand)
delete_brand_products(rows, brand) ==
    SelectSeq(rows, LAMBDA r : Get(r, "brand") # Str(brand))

\* batch_size (100 in the three scripts), scaled down so that a run of a few
\* products has several batches
BatchSize == 2
MaxProducts == 3

\* index of the last product of the batch that starts at first
BatchLast(first, n) == IF first + BatchSize - 1 < n THEN first + BatchSize - 1 ELSE n

\* a loop that leaves the batch at the first rejected insert
AfterRejectBreak(pos, lastOfBatch) == lastOfBatch + 1

\* lines 102-106: after a rejected insert the loop goes on with the next product
AfterReject(pos, lastOfBatch) == pos + 1

\* what a script adds to total_uploaded after a batch:
\* upload_data.py line 40, clear_and_upload_auto.py lines 68-69,
\* clear_brand_and_upload.py lines 76-77
Counted(scr, batchLen, result) ==
    CASE scr = "upload_data" -> batchLen
      [] scr = "clear_and_upload_auto" -> IF result # <<>> THEN batchLen ELSE 0
      [] scr = "clear_brand_and_upload" -> IF result # <<>> THEN Len(result) ELSE 0

Scripts == {"upload_data", "clear_and_upload_auto", "clear_brand_and_upload"}

\* argv[2] of clear_brand_and_upload
BrandArg == "Rhone"

UStep(op, idx) == [op |-> op, idx |-> idx]

\* one call of insert(): the index of the product in the file and whether the
\* store took it
Attempt(idx, ok) == [idx |-> idx, ok |-> ok]

\* a delete step that removes nothing
UDeleteSkipped ==
    /\ upc = "start"
    /\ pc \in {"idle", "done"}
    /\ upc' = "load"
    /\ ulast' = UStep("delete", 0)
    /\ prev_store' = store
    /\ UNCHANGED <<script, store, products, bstart, bpos, successful, total_uploaded,
                   attempts, accepted>>

\* clear_and_upload_auto.py lines 37-47, clear_brand_and_upload.py lines 54-56:
\* the delete, before the file is read
UDelete ==
    /\ upc = "start"
    /\ pc \in {"idle", "done"}
    /\ store' = IF script = "clear_and_upload_auto"
                THEN delete_all_products(store)
                ELSE delete_brand_products(store, BrandArg)
    /\ upc' = "load"
    /\ ulast' = UStep("delete", 0)
    /\ prev_store' = store
    /\ UNCHANGED <<script, products, bstart, bpos, successful, total_uploaded,
                   attempts, accepted>>

\* json.load of the file: plist is its content
ULoad(plist) ==
    /\ upc = "load"
    /\ pc \in {"idle", "done"}
    /\ products' = plist
    /\ upc' = IF plist = <<>> THEN "done" ELSE "batch"
    /\ bstart' = 1
    /\ bpos' = 1
    /\ ulast' = UStep("load", 0)
    /\ prev_store' = store
    /\ UNCHANGED <<script, store, successful, total_uploaded, attempts, accepted>>

\* open() or json.load raises: the script ends there
ULoadFail ==
    /\ upc = "load"
    /\ pc \in {"idle", "done"}
    /\ upc' = "failed"
    /\ ulast' = UStep("loadfail", 0)
    /\ prev_store' = store
    /\ UNCHANGED <<script, store, products, bstart, bpos, successful, total_uploaded,
                   attempts, accepted>>

InBatch == upc = "batch" /\ bpos <= BatchLast(bstart, Len(products))

\* supabase_client.py lines 76-78
USkipNoName ==
    /\ InBatch
    /\ ~HasName(products[bpos])
    /\ bpos' = bpos + 1
    /\ ulast' = UStep("skip", bpos)
    /\ prev_store' = store
    /\ UNCHANGED <<script, upc, store, products, bstart, successful, total_uploaded,
                   attempts, accepted>>

\* lines 98-101: the store accepts the row
UInsertOk ==
    /\ InBatch
    /\ HasName(products[bpos])
    /\ \E r \in {StoreInsert(store, product_copy(products[bpos]))} :
        /\ r.ok
        /\ store' = r.rows
    /\ successful' = Append(successful, product_copy(products[bpos]))
    /\ attempts' = Append(attempts, Attempt(bpos, TRUE))
    /\ accepted' = accepted + 1
    /\ bpos' = bpos + 1
    /\ ulast' = UStep("accepted", bpos)
    /\ prev_store' = store
    /\ UNCHANGED <<script, upc, products, bstart, total_uploaded>>

\* lines 102-106: the store raises on a duplicate
UInsertDuplicate ==
    /\ InBatch
    /\ HasName(products[bpos])
    /\ \E r \in {StoreInsert(store, product_copy(products[bpos]))} :
        /\ ~r.ok
        /\ store' = r.rows
    /\ attempts' = Append(attempts, Attempt(bpos, FALSE))
    /\ bpos' = AfterReject(bpos, BatchLast(bstart, Len(products)))
    /\ ulast' = UStep("duplicate", bpos)
    /\ prev_store' = store
    /\ UNCHANGED <<script, upc, products, bstart, successful, total_uploaded, accepted>>

\* lines 102-106: the store raises for another reason
UInsertRejected ==
    /\ InBatch
    /\ HasName(products[bpos])
    /\ attempts' = Append(attempts, Attempt(bpos, FALSE))
    /\ bpos' = AfterReject(bpos, BatchLast(bstart, Len(products)))
    /\ ulast' = UStep("rejected", bpos)
    /\ prev_store' = store
    /\ UNCHANGED <<script, upc, store, products, bstart, successful, total_uploaded,
                   accepted>>

\* insert_products_batch returns; the script adds to its total and goes to the
\* next batch
UBatchReturn ==
    /\ upc = "batch"
    /\ bpos > BatchLast(bstart, Len(products))
    /\ total_uploaded' = total_uploaded
          + Counted(script, BatchLast(bstart, Len(products)) - bstart + 1, successful)
    /\ successful' = <<>>
    /\ bstart' = bstart + BatchSize
    /\ bpos' = bstart + BatchSize
    /\ upc' = IF bstart + BatchSize > Len(products) THEN "done" ELSE "batch"
    /\ ulast' = UStep("return", 0)
    /\ prev_store' = store
    /\ UNCHANGED <<script, store, products, attempts, accepted>>

UploadIdle ==
    /\ script = "none"
    /\ upc = "idle"
    /\ store = <<>>
    /\ products = <<>>
    /\ bstart = 0
    /\ bpos = 0
    /\ successful = <<>>
    /\ total_uploaded = 0
    /\ attempts = <<>>
    /\ accepted = 0
    /\ ulast = UStep("idle", 0)
    /\ prev_store = <<>>

\* products of an upload file
UTee ==
    <<It("product_id", Str("1")), It("name", Str("Tee")), It("brand", Str("Rhone")),
      It("colors", StrList(<<"Black">>))>>
UTeeAgain ==
    <<It("product_id", Str("1")), It("name", Str("Tee 2")), It("brand", Str("Rhone")),
      It("colors", StrList(<<"Black", "Navy">>))>>
UPolo == <<It("product_id", Str("2")), It("name", Str("Polo")), It("brand", Str("Rhone"))>>
UNoName == <<It("product_id", Str("3")), It("brand", Str("Rhone"))>>
UEmptyName == <<It("product_id", Str("4")), It("name", Str("")), It("brand", Str("Rhone"))>>

UploadProducts == {UTee, UTeeAgain, UPolo, UNoName, UEmptyName}

\* the files: lists of at most MaxProducts products
UploadLists == UNION {[1..n -> UploadProducts] : n \in 0..MaxProducts}

\* rows the table may hold before the script runs
OldTeeRow ==
    <<It("product_id", Str("1")), It("name", Str("Old Tee")), It("brand", Str("Rhone")),
      It("colors", Str("[\"Grey\"]"))>>
VuoriRow == <<It("product_id", Str("9")), It("name", Str("Short")), It("brand", Str("Vuori"))>>

InitialStores == {<<>>, <<OldTeeRow, VuoriRow>>}

UploadStart ==
    /\ script \in Scripts
    /\ upc = IF script = "upload_data" THEN "load" ELSE "start"
    /\ store \in InitialStores
    /\ products = <<>>
    /\ bstart = 0
    /\ bpos = 0
    /\ successful = <<>>
    /\ total_uploaded = 0
    /\ attempts = <<>>
    /\ accepted = 0
    /\ ulast = UStep("start", 0)
    /\ prev_store = store

\* the file a script reads: the combined file when combine_manual_scrapes ran
InputLists == IF pc = "done" THEN {all_products} ELSE UploadLists

UDeleteNext == UDelete /\ UNCHANGED <<keyvars, combvars, fixvars, mcvars>>
ULoadNext == (\E plist \in InputLists : ULoad(plist)) /\ UNCHANGED <<keyvars, combvars, fixvars, mcvars>>
ULoadFailNext == ULoadFail /\ UNCHANGED <<keyvars, combvars, fixvars, mcvars>>
USkipNext == USkipNoName /\ UNCHANGED <<keyvars, combvars, fixvars, mcvars>>
UInsertOkNext == UInsertOk /\ UNCHANGED <<keyvars, combvars, fixvars, mcvars>>
UDuplicateNext == UInsertDuplicate /\ UNCHANGED <<keyvars, combvars, fixvars, mcvars>>
URejectedNext == UInsertRejected /\ UNCHANGED <<keyvars, combvars, fixvars, mcvars>>
UReturnNext == UBatchReturn /\ UNCHANGED <<keyvars, combvars, fixvars, mcvars>>

UploadNext ==
    \/ UDeleteNext
    \/ ULoadNext
    \/ ULoadFailNext
    \/ USkipNext
    \/ UInsertOkNext
    \/ UDuplicateNext
    \/ URejectedNext
    \/ UReturnNext

-----------------------------------------------------------------------------
(* fix_categories.py *)

\* lines 13-70: categorize_product on the lower-cased url and name
categorize_product(url, name) ==
    IF AnyIn(<<"accessories", "beanie", "hat", "cap", "sock", "glove", "belt", "bag",
               "backpack", "headband", "wristband", "towel", "gift">>, url, name)
        THEN "Accessories"
    ELSE IF AnyIn(<<"jacket", "hoodie", "vest", "fleece", "blazer", "coat", "pullover",
                    "quarter-zip", "half-zip", "full-zip">>, url, name)
        THEN IF Contains(name, "short") /\ Contains(name, "sleeve") THEN "Tops" ELSE "Outerwear"
    ELSE IF AnyIn(SportsBrasWords, url, name) THEN "Sports Bras"
    ELSE IF Contains(url, "legging") \/ Contains(name, "legging") THEN "Leggings"
    ELSE IF (Contains(url, "short") \/ Contains(name, "short")) /\ ~Contains(name, "sleeve")
        THEN "Shorts"
    ELSE IF AnyIn(<<"pant", "jogger", "bottom", "sweatpant", "trouser", "commuter",
                    "chino", "swift">>, url, name)
        THEN "Bottoms"
    ELSE "Tops"

\* lines 73-134: fix_categories on the combined file; every product is given
\* the category of categorize_product, and lines 18-19 raise on a url or name
\* that is no str
fix_categories ==
    /\ pc = "done"
    /\ fpc = "idle"
    /\ IF \E i \in 1..Len(all_products) :
            LowerRaises(all_products[i], "url") \/ LowerRaises(all_products[i], "name")
       THEN fpc' = "raised" /\ fixed_products' = <<>>
       ELSE /\ fpc' = "saved"
            /\ fixed_products' = [i \in 1..Len(all_products) |->
                  Put(all_products[i], "category",
                      Str(categorize_product(
                            lower(GetOr(all_products[i], "url", Str("")).v),
                            lower(GetOr(all_products[i], "name", Str("")).v))))]

FixIdle ==
    /\ fpc = "idle"
    /\ fixed_products = <<>>

FixCategoriesNext == fix_categories /\ UNCHANGED <<keyvars, combvars, upvars, mcvars>>

-----------------------------------------------------------------------------
(* merge_colors.py *)

\* the elements of the text "a", "b", ... between the brackets of an array
RECURSIVE JsonElems(_)
JsonElems(s) ==
    IF Contains(s, "\", \"")
    THEN <<Str(SubSeq(s, 2, Find(s, "\", \"") - 1))>>
            \o JsonElems("\"" \o AfterFirst(s, "\", \""))
    ELSE <<Str(SubSeq(s, 2, Len(s) - 1))>>

\* lines 74 and 89: json.loads of a column; the text of an array of strings
\* is parsed, a text that does not start with a bracket is no JSON and raises
json_loads(text) ==
    IF Len(text) >= 2 /\ Char(text, 1) = "[" /\ Char(text, Len(text)) = "]"
    THEN [ok |-> TRUE,
          v |-> IF Len(text) = 2 THEN Lst(<<>>)
                ELSE Lst(JsonElems(SubSeq(text, 2, Len(text) - 1)))]
    ELSE [ok |-> FALSE, v |-> Null]

\* lines 46-52: image_to_colors, from the first image of a scraped record with
\* images and colors to its colors; a later record replaces an earlier one
image_to_colors(plist) ==
    LET Mapped == {i \in 1..Len(plist) :
                      Truthy(Get(plist[i], "images")) /\ Truthy(Get(plist[i], "colors"))}
        Key(i) == IF IsList(Get(plist[i], "images"))
                  THEN Get(plist[i], "images").v[1]
                  ELSE Get(plist[i], "images")
    IN  [img \in {Key(i) : i \in Mapped} |->
            Get(plist[CHOOSE i \in Mapped :
                        Key(i) = img /\ \A j \in Mapped : Key(j) = img => j <= i],
                "colors")]

\* lines 65-79: the first image of a stored row, if the loop goes on with it
first_image(p) ==
    LET imgs == Get(p, "images") IN
    IF ~Truthy(imgs) THEN [found |-> FALSE, img |-> Null]
    ELSE IF IsList(imgs) THEN [found |-> TRUE, img |-> imgs.v[1]]
    ELSE IF IsStr(imgs)
        THEN LET r == json_loads(imgs.v) IN
             IF r.ok
             THEN [found |-> TRUE, img |-> IF r.v.v = <<>> THEN Null ELSE r.v.v[1]]
             ELSE [found |-> TRUE, img |-> imgs]
    ELSE [found |-> FALSE, img |-> Null]

\* lines 84-91: the colors of a stored row, parsed when they are a text
existing_colors(p) ==
    LET c == GetOr(p, "colors", Lst(<<>>)) IN
    IF IsStr(c)
    THEN LET r == json_loads(c.v) IN IF r.ok THEN r.v ELSE Lst(<<>>)
    ELSE c

\* the strings of a list of strings
ColorSet(l) == {l.v[i].v : i \in 1..Len(l.v)}

\* a merge that writes the scraped colors in place of the stored ones
scraped_colors_only(existing, scraped) == ColorSet(scraped)

\* line 94: set(existing_colors + new_colors)
merged_colors(existing, scraped) == ColorSet(existing) \cup ColorSet(scraped)

\* lines 64-103 for one stored row: whether its first image is in
\* image_to_colors, whether line 94 raises (a value that is no list), and
\* whether an update is collected
ScanRow(p, itc) ==
    LET f == first_image(p)
        match == f.found /\ IsStr(f.img) /\ f.img \in DOMAIN itc
        old == existing_colors(p)
        raises == match /\ (~IsList(old) \/ ~IsList(itc[f.img]))
        merged == IF match /\ ~raises THEN merged_colors(old, itc[f.img]) ELSE {}
    IN  [match |-> match, raises |-> raises,
         needed |-> match /\ ~raises /\ merged # ColorSet(old),
         update |-> [id |-> Get(p, "id"), stored |-> GetOr(p, "colors", Lst(<<>>)),
                     scraped |-> IF match THEN itc[f.img] ELSE Null,
                     new_colors |-> merged]]

\* lines 28-109: the files are loaded, the rows are fetched and scanned
McScan ==
    /\ mpc = "start"
    /\ LET itc == image_to_colors(new_products)
           scans == [i \in 1..Len(mstore) |-> ScanRow(mstore[i], itc)]
           needed == SelectSeq(scans, LAMBDA r : r.needed)
       IN  IF new_products = <<>>
           THEN mpc' = "finished" /\ updates_needed' = <<>>
           ELSE IF \E i \in 1..Len(mstore) : scans[i].raises
           THEN mpc' = "crashed" /\ updates_needed' = <<>>
           ELSE /\ updates_needed' = [i \in 1..Len(needed) |-> needed[i].update]
                /\ mpc' = IF needed = <<>> THEN "finished" ELSE "updating"
    /\ upos' = 1
    /\ UNCHANGED <<new_products, mstore, mrun, mlog>>
    /\ UNCHANGED <<keyvars, combvars, upvars, fixvars>>

\* the lists a set can be turned into: list(set(...)) has no defined order
Orderings(S) ==
    {l \in [1..Cardinality(S) -> S] : \A i, j \in 1..Cardinality(S) : l[i] = l[j] => i = j}

\* one entry of the history of updates
Issued(u, ok, text) ==
    [run |-> mrun, id |-> u.id, ok |-> ok, stored |-> u.stored, scraped |-> u.scraped,
     text |-> text]

\* lines 120-127: the update of the current entry is executed
McUpdateOk ==
    /\ mpc = "updating"
    /\ \E l \in Orderings(updates_needed[upos].new_colors) :
        LET text == JsonText(StrList(l)) IN
        /\ mstore' = [i \in 1..Len(mstore) |->
                        IF Get(mstore[i], "id") = updates_needed[upos].id
                        THEN Put(mstore[i], "colors", Str(text))
                        ELSE mstore[i]]
        /\ mlog' = Append(mlog, Issued(updates_needed[upos], TRUE, text))
    /\ upos' = upos + 1
    /\ mpc' = IF upos = Len(updates_needed) THEN "finished" ELSE "updating"
    /\ UNCHANGED <<new_products, updates_needed, mrun>>
    /\ UNCHANGED <<keyvars, combvars, upvars, fixvars>>

\* lines 128-129: the update raises, the error is printed and the loop goes on
McUpdateFail ==
    /\ mpc = "updating"
    /\ mlog' = Append(mlog, Issued(updates_needed[upos], FALSE, ""))
    /\ upos' = upos + 1
    /\ mpc' = IF upos = Len(updates_needed) THEN "finished" ELSE "updating"
    /\ UNCHANGED <<new_products, mstore, updates_needed, mrun>>
    /\ UNCHANGED <<keyvars, combvars, upvars, fixvars>>

MaxRuns == 2

\* the script is run again over the same files
McRerun ==
    /\ mpc \in {"finished", "crashed"}
    /\ mrun < MaxRuns
    /\ mpc' = "start"
    /\ mrun' = mrun + 1
    /\ updates_needed' = <<>>
    /\ upos' = 0
    /\ UNCHANGED <<new_products, mstore, mlog>>
    /\ UNCHANGED <<keyvars, combvars, upvars, fixvars>>

ColorsIdle ==
    /\ mpc = "idle"
    /\ new_products = <<>>
    /\ mstore = <<>>
    /\ updates_needed = <<>>
    /\ upos = 0
    /\ mrun = 0
    /\ mlog = <<>>

\* scraped records: two with the same first image, one with a single image
\* that is no list, one without colors
ScrapedProducts ==
    { <<It("images", StrList(<<"i1.jpg", "i9.jpg">>)), It("colors", StrList(<<"Black", "Navy">>))>>,
      <<It("images", StrList(<<"i1.jpg">>)), It("colors", StrList(<<"Red">>))>>,
      <<It("images", Str("i2.jpg")), It("colors", StrList(<<"Grey">>))>>,
      <<It("images", StrList(<<"i3.jpg">>)), It("colors", Lst(<<>>))>> }

\* rows of the table: columns as the upload writes them (texts), as lists,
\* and without value
StoredRows ==
    << <<It("id", Num(1)), It("name", Str("Tee")),
         It("images", Str(JsonText(StrList(<<"i1.jpg", "i8.jpg">>)))),
         It("colors", Str(JsonText(StrList(<<"Black">>))))>>,
       <<It("id", Num(2)), It("name", Str("Polo")),
         It("images", StrList(<<"i2.jpg">>)), It("colors", StrList(<<"Grey">>))>>,
       <<It("id", Num(3)), It("name", Str("Tank")),
         It("images", Str("i2.jpg")), It("colors", Null)>>,
       <<It("id", Num(4)), It("name", Str("Short")),
         It("images", Null), It("colors", Str(JsonText(StrList(<<"Red">>))))>>,
       <<It("id", Num(5)), It("name", Str("Crew")),
         It("images", Str(JsonText(StrList(<<"i1.jpg">>)))), It("colors", Str("[]"))>> >>

MaxScraped == 2
MaxRows == 2

ColorsStart ==
    /\ mpc = "start"
    /\ new_products \in UNION {[1..n -> ScrapedProducts] : n \in 0..MaxScraped}
    /\ mstore \in {SelectSeq(StoredRows, LAMBDA r : r \in S) :
                      S \in {T \in SUBSET {StoredRows[i] : i \in 1..Len(StoredRows)} :
                                Cardinality(T) <= MaxRows}}
    /\ updates_needed = <<>>
    /\ upos = 0
    /\ mrun = 1
    /\ mlog = <<>>

ColorsNext ==
    \/ McScan
    \/ McUpdateOk
    \/ McUpdateFail
    \/ McRerun

-----------------------------------------------------------------------------
(* Specifications *)

KeyInit ==
    /\ kpc = "in"
    /\ urlA \in KeyUrls
    /\ urlB \in KeyUrls
    /\ keyA = ""
    /\ keyB = ""
    /\ CombineIdle
    /\ UploadIdle
    /\ FixIdle
    /\ ColorsIdle

\* the key function on pairs of urls
SpecKey == KeyInit /\ [][KeyNext]_vars

DedupInit == CombineInit("dedup") /\ KeyIdle /\ UploadIdle /\ FixIdle /\ ColorsIdle

\* combine_manual_scrapes over records that differ in their urls
SpecDedup == DedupInit /\ [][CombineNext]_vars

NormInit == CombineInit("norm") /\ KeyIdle /\ UploadIdle /\ FixIdle /\ ColorsIdle

\* combine_manual_scrapes over records that differ in what the clean-up reads
SpecNorm == NormInit /\ [][CombineNext]_vars

MergeInit == CombineInit("merge") /\ KeyIdle /\ UploadIdle /\ FixIdle /\ ColorsIdle

\* combine_manual_scrapes over records of one key that differ in their fields
SpecMerge == MergeInit /\ [][CombineNext]_vars

UploadInit == UploadStart /\ KeyIdle /\ CombineIdle /\ FixIdle /\ ColorsIdle

\* the three upload scripts on a file of products
SpecUpload == UploadInit /\ [][UploadNext]_vars

PipeInit == CombineInit("pipe") /\ KeyIdle /\ UploadStart /\ FixIdle /\ ColorsIdle

PipeNext ==
    \/ OpenNext
    \/ OpenDictNext
    \/ BadFileNext
    \/ ReadNext
    \/ NonObjectNext
    \/ EndFileNext
    \/ FinishNext
    \/ UDeleteNext
    \/ ULoadNext
    \/ ULoadFailNext
    \/ USkipNext
    \/ UInsertOkNext
    \/ UDuplicateNext
    \/ URejectedNext
    \/ UReturnNext

\* combine_manual_scrapes, then an upload script on the combined file
SpecPipe == PipeInit /\ [][PipeNext]_vars

PartialInit == CombineInit("partial") /\ KeyIdle /\ UploadIdle /\ FixIdle /\ ColorsIdle

\* combine_manual_scrapes over files in which a record raises
SpecPartial == PartialInit /\ [][CombineNext]_vars

ColorsInit == ColorsStart /\ KeyIdle /\ CombineIdle /\ UploadIdle /\ FixIdle

\* merge_colors run once or more over the same files
SpecColors == ColorsInit /\ [][ColorsNext]_vars

ClassifyInit == CombineInit("classify") /\ KeyIdle /\ UploadIdle /\ FixIdle /\ ColorsIdle

ClassifyNext ==
    \/ OpenNext
    \/ OpenDictNext
    \/ BadFileNext
    \/ ReadNext
    \/ NonObjectNext
    \/ EndFileNext
    \/ FinishNext
    \/ FixCategoriesNext

\* combine_manual_scrapes over records to classify, then fix_categories on
\* the combined file
SpecClassify == ClassifyInit /\ [][ClassifyNext]_vars

-----------------------------------------------------------------------------
(* Properties of the URL key and of the combined output *)

UrlOf(rec) == Get(rec, "url").v

RECURSIVE QueryVariant(_)
QueryVariant(q) ==
    IF q = "" THEN [found |-> FALSE, v |-> ""]
    ELSE LET param == SplitHead(q, "&")
             rest == IF Contains(q, "&") THEN AfterFirst(q, "&") ELSE ""
         IN  IF Len(param) >= 8 /\ SubSeq(param, 1, 8) = "variant="
             THEN [found |-> TRUE, v |-> SubSeq(param, 9, Len(param))]
             ELSE QueryVariant(rest)

QueryOf(url) == IF Contains(url, "?") THEN AfterFirst(url, "?") ELSE ""

\* the key the variant parameter of the query string gives
VariantKey(url) ==
    IF QueryVariant(QueryOf(url)).found
    THEN SplitHead(url, "?") \o "?variant=" \o QueryVariant(QueryOf(url)).v
    ELSE SplitHead(url, "?")

\* C2: the key keeps the variant parameter wherever it stands in the query and
\* drops the others (...?scrollTo=top&variant=9 gives ...?variant=9, and
\* ...?scrollTo=top gives the base url), so two urls with the same base and
\* different variant values get different keys.
C2_KeyKeepsVariant ==
    kpc = "out" =>
        /\ keyA = VariantKey(urlA)
        /\ urlA = "https://x.test/p/item?scrollTo=top&variant=9"
              => keyA = "https://x.test/p/item?variant=9"
        /\ urlA = "https://x.test/p/item?scrollTo=top" => keyA = "https://x.test/p/item"
        /\ ( /\ SplitHead(urlA, "?") = SplitHead(urlB, "?")
             /\ QueryVariant(QueryOf(urlA)).found
             /\ QueryVariant(QueryOf(urlB)).found
             /\ QueryVariant(QueryOf(urlA)).v # QueryVariant(QueryOf(urlB)).v )
              => keyA # keyB

\* the first record of the end-to-end scenario: images, one colour, no name
IsImagesRecord(rec) ==
    /\ Get(rec, "images") = StrList(<<"i1.jpg">>)
    /\ Get(rec, "colors") = StrList(<<"Black">>)
    /\ ~Has(rec, "name")
    /\ ~HasVariantParam(UrlOf(rec))

\* the second: a name, two colours, no images
IsNamedRecord(rec) ==
    /\ Get(rec, "name") = Str("Jogger")
    /\ Get(rec, "colors") = StrList(<<"Black", "Navy">>)
    /\ ~Has(rec, "images")
    /\ ~HasVariantParam(UrlOf(rec))

IsScenario(e) ==
    /\ Len(e.srcs) = 2
    /\ IsImagesRecord(e.srcs[1].rec)
    /\ IsNamedRecord(e.srcs[2].rec)
    /\ UrlOf(e.srcs[1].rec) # UrlOf(e.srcs[2].rec)

\* C3: the record with the images then the record with the name, same base url
\* and no variant, give exactly one output record: name Jogger, colours
\* Black and Navy, images i1.jpg.
C3_EndToEnd ==
    pc = "done" =>
        \A i \in 1..Len(products_by_url) :
            IsScenario(products_by_url[i]) =>
                /\ Get(all_products[i], "name") = Str("Jogger")
                /\ Get(all_products[i], "colors") = StrList(<<"Black", "Navy">>)
                /\ Get(all_products[i], "images") = StrList(<<"i1.jpg">>)
                /\ \A j \in 1..Len(all_products) :
                      unique_url(UrlOf(all_products[j])) = products_by_url[i].key => j = i
                /\ Len(all_products) = Len(products_by_url)
                /\ nread = 2 => Len(all_products) = 1

\* the two records came from two files and the output is written
C3_Witness ==
    /\ pc = "done"
    /\ \E i \in 1..Len(products_by_url) :
        /\ IsScenario(products_by_url[i])
        /\ products_by_url[i].srcs[1].file # products_by_url[i].srcs[2].file

\* the products of a list that have a name
NamedCount(plist) == Cardinality({i \in 1..Len(plist) : HasName(plist[i])})

\* C4: a merged record whose name is absent or empty is not in the combined
\* output list, and the total an upload script reports does not count it
C4_NamelessDropped ==
    /\ pc = "done" => \A i \in 1..Len(all_products) : HasName(all_products[i])
    /\ upc = "done" => total_uploaded <= NamedCount(products)

\* C5: when a script has gone through all batches, the total it reports is the
\* number of records the store accepted
C5_TotalIsAccepted == upc = "done" => total_uploaded = accepted

\* the indices of the named products of a list, in order
NamedIndices(plist) ==
    SelectSeq([i \in 1..Len(plist) |-> i], LAMBDA i : HasName(plist[i]))

\* C6: whatever the store rejects, every named record of the file is handed to
\* the store exactly once, in file order, by the time the script is through
C6_RejectionIsolated ==
    upc = "done" =>
        [k \in 1..Len(attempts) |-> attempts[k].idx] = NamedIndices(products)

\* a rejection of the first record, then the second of the same batch and the
\* third of the next batch attempted
C6_Witness ==
    /\ upc = "done"
    /\ Len(attempts) = 3
    /\ ~attempts[1].ok
    /\ attempts[3].ok
    /\ [k \in 1..3 |-> attempts[k].idx] = <<1, 2, 3>>

\* C7: a write is an insert that fails on a duplicate: the rows the store held
\* stay as they were, an accepted row is a new row whose key the store did not
\* hold, and a duplicate leaves the store unchanged
C7_InsertOrFail ==
    /\ ulast.op \in {"accepted", "duplicate", "rejected", "skip"} =>
          /\ Len(prev_store) <= Len(store)
          /\ \A i \in 1..Len(prev_store) : store[i] = prev_store[i]
    /\ ulast.op = "accepted" =>
          /\ Len(store) = Len(prev_store) + 1
          /\ store[Len(store)] = product_copy(products[ulast.idx])
          /\ ~Conflicts(prev_store, store[Len(store)])
    /\ ulast.op = "duplicate" =>
          /\ store = prev_store
          /\ Conflicts(store, product_copy(products[ulast.idx]))
          /\ attempts[Len(attempts)] = Attempt(ulast.idx, FALSE)

\* a second version of a product the store already holds was offered and the
\* old row is still there
C7_Witness ==
    /\ ulast.op = "duplicate"
    /\ products[ulast.idx] = UTeeAgain
    /\ \E i \in 1..Len(store) : store[i] = OldTeeRow

CategorySet ==
    {Str("Tops"), Str("Bottoms"), Str("Shorts"), Str("Outerwear"), Str("Leggings"),
     Str("Sports Bras"), Str("Accessories")}

\* C8: every output record has a category that is set, is not "Other" or
\* "null", and is one of the seven categories or a value a source record of
\* that product carried.
C8_CategorySet ==
    pc = "done" =>
        \A i \in 1..Len(all_products) :
            LET c == Get(all_products[i], "category") IN
            /\ Has(all_products[i], "category")
            /\ Truthy(c)
            /\ c # Str("Other")
            /\ c # Str("null")
            /\ \/ c \in CategorySet
               \/ \E k \in 1..Len(products_by_url[i].srcs) :
                     Get(products_by_url[i].srcs[k].rec, "category") = c

\* an output record whose merged category was a placeholder, and one that
\* keeps the value of its source
C8_Witness ==
    /\ pc = "done"
    /\ \E i \in 1..Len(all_products) :
        /\ Get(products_by_url[i].rec, "category") = Str("Other")
        /\ Get(all_products[i], "category") \in CategorySet
    /\ \E i \in 1..Len(all_products) : Get(all_products[i], "category") \notin CategorySet

\* C9: in every output record images is a list and image is absent.
C9_ImagesList ==
    pc = "done" =>
        \A i \in 1..Len(all_products) :
            /\ Has(all_products[i], "images")
            /\ IsList(Get(all_products[i], "images"))
            /\ ~Has(all_products[i], "image")

\* C10: the clean-up applied to a cleaned-up record, at any time, does not
\* raise and returns that record.
C10_NormalizeIdempotent ==
    pc = "done" =>
        \A i \in 1..Len(all_products) : \A now \in Clock :
            /\ ~NormalizeRaises(all_products[i])
            /\ Normalize(all_products[i], now) = all_products[i]

\* an output record whose clean-up rewrote image, original_price and category
C10_Witness ==
    /\ pc = "done"
    /\ \E i \in 1..Len(all_products) :
        /\ Has(products_by_url[i].rec, "image")
        /\ Has(products_by_url[i].rec, "original_price")
        /\ NeedsCategory(products_by_url[i].rec)
        /\ all_products[i] # products_by_url[i].rec
    /\ \E i \in 1..Len(all_products) :
        /\ Has(products_by_url[i].rec, "images")
        /\ Has(products_by_url[i].rec, "image")

\* C11: no error ends the run early: a run over any files and records gets to
\* the end and writes its output list (or reports that there is no input)
C11_RunCompletes == pc # "crashed"

\* the record accumulated under a key, recomputed from the records that were
\* read under it and the names of their files
RECURSIVE Replay(_, _)
Replay(acc, srcs) ==
    IF srcs = <<>> THEN acc
    ELSE LET fcat == extract_category_from_filename(srcs[1].file) IN
         Replay(Merge(acc, StampCategory(srcs[1].rec, fcat), fcat).d, Tail(srcs))

Rebuilt(srcs) ==
    Replay(StampCategory(srcs[1].rec, extract_category_from_filename(srcs[1].file)),
           Tail(srcs))

\* C12: a file that is no JSON, or neither an array nor an object, leaves every
\* accumulated record as it was and adds none; the accumulated records are at
\* all times what the records read from the other files give
C12_BadFileSkipped ==
    /\ last.op = "badfile" => products_by_url = prev /\ pc = "files"
    /\ \A i \in 1..Len(products_by_url) :
          products_by_url[i].rec = Rebuilt(products_by_url[i].srcs)

\* a bad file met when records have been accumulated
C12_Witness ==
    /\ last.op = "badfile"
    /\ prev # <<>>
    /\ \E i \in 1..Len(prev) : Len(prev[i].srcs) = 2

\* C13: a record without a url or without a product_id changes no accumulated
\* record when it is read, is never one of the records a key was built from,
\* and no record of the output lacks a url or a product_id
C13_DroppedRecord ==
    /\ last.op = "drop" => products_by_url = prev
    /\ \A i \in 1..Len(products_by_url) :
          /\ Truthy(Get(products_by_url[i].rec, "url"))
          /\ Truthy(Get(products_by_url[i].rec, "product_id"))
          /\ \A j \in 1..Len(products_by_url[i].srcs) :
                /\ Has(products_by_url[i].srcs[j].rec, "url")
                /\ Has(products_by_url[i].srcs[j].rec, "product_id")
    /\ pc = "done" =>
          \A i \in 1..Len(all_products) :
              /\ Truthy(Get(all_products[i], "url"))
              /\ Truthy(Get(all_products[i], "product_id"))

\* a record with a name and no product_id is read when a record of its key is
\* accumulated
C13_Witness ==
    /\ last.op = "drop"
    /\ ~Has(last.rec, "product_id")
    /\ Truthy(Get(last.rec, "name"))
    /\ IsStr(Get(last.rec, "url"))
    /\ KeyIndex(prev, unique_url(UrlOf(last.rec))) # 0

\* the empty values: null, the empty string and the empty sequence
IsEmpty(x) == x = Null \/ x = Str("") \/ x = Lst(<<>>)

\* the last step merged the record last.rec into the record of its key
MergeStep == last.op \in {"merge", "mergeraise"}
\* that record before and after the step
Existing == prev[KeyIndex(prev, last.key)].rec
Merged == products_by_url[KeyIndex(products_by_url, last.key)].rec

\* field k is the same in two records: same value, or absent in both
SameField(a, b, k) == Has(a, k) = Has(b, k) /\ Get(a, k) = Get(b, k)

\* C14 as stated: every field whose incoming value is empty is the same in the
\* merged record as in the existing one
C14_EmptyIncomingKeeps ==
    MergeStep =>
        \A j \in 1..Len(last.rec) :
            IsEmpty(last.rec[j].v) => SameField(Merged, Existing, last.rec[j].k)

\* C14 amended: every field whose incoming value is empty, other than category
\* when the name of the record's file gives a category, is the same in the
\* merged record as in the existing one
C14_EmptyIncomingKeepsButFileCategory ==
    MergeStep =>
        \A j \in 1..Len(last.rec) :
            /\ IsEmpty(last.rec[j].v)
            /\ ~(last.rec[j].k = "category" /\ Truthy(file_category))
            => SameField(Merged, Existing, last.rec[j].k)

\* the record with the empty name, colours, price and category is merged into
\* a record that has none of these and into one that has them
C14_Witness ==
    /\ last.op = "merge"
    /\ last.rec = MEmpty
    /\ \/ ~Has(Existing, "name")
       \/ Get(Existing, "name") = Str("Tee")

\* field k of the incoming record is one the file name decides: category, when
\* the name of the record's file gives a category
FileDecides(k) == k = "category" /\ Truthy(file_category)

\* C15: every field whose incoming value is not empty and whose existing value
\* is empty or absent has the incoming value in the merged record (category
\* left aside where the file name decides it)
C15_EmptyExistingTakes ==
    MergeStep =>
        \A j \in 1..Len(last.rec) :
            /\ ~IsEmpty(last.rec[j].v)
            /\ ~Has(Existing, last.rec[j].k) \/ IsEmpty(Get(Existing, last.rec[j].k))
            /\ ~FileDecides(last.rec[j].k)
            => Get(Merged, last.rec[j].k) = last.rec[j].v

\* both values are sequences that are not empty, or both strings that are not
Comparable(a, b) ==
    /\ a.t = b.t
    /\ a.t \in {"str", "list"}
    /\ ~IsEmpty(a)
    /\ ~IsEmpty(b)

\* C16: where the existing and the incoming value of a field are both
\* sequences, or both strings, and neither is empty, the merged value is the
\* incoming one when it is strictly longer and the existing one otherwise
\* (category left aside where the file name decides it)
C16_LongerWins ==
    MergeStep =>
        \A j \in 1..Len(last.rec) :
            /\ Comparable(Get(Existing, last.rec[j].k), last.rec[j].v)
            /\ ~FileDecides(last.rec[j].k)
            => Get(Merged, last.rec[j].k) =
                  IF PyLen(last.rec[j].v) > PyLen(Get(Existing, last.rec[j].k))
                  THEN last.rec[j].v
                  ELSE Get(Existing, last.rec[j].k)

\* C17: where the existing value of a field is not empty (0 and false are
\* values) and the two values are not both sequences and not both strings, the
\* merged value is the existing one (category left aside where the file name
\* decides it)
C17_FirstSeenWins ==
    MergeStep =>
        \A j \in 1..Len(last.rec) :
            /\ Has(Existing, last.rec[j].k)
            /\ ~IsEmpty(Get(Existing, last.rec[j].k))
            /\ ~(IsList(Get(Existing, last.rec[j].k)) /\ IsList(last.rec[j].v))
            /\ ~(IsStr(Get(Existing, last.rec[j].k)) /\ IsStr(last.rec[j].v))
            /\ ~FileDecides(last.rec[j].k)
            => Get(Merged, last.rec[j].k) = Get(Existing, last.rec[j].k)

\* among the records read under one key, record s has in field k a value
\* that is strictly longer than the value of every other record: the others
\* have no value, an empty one, or a shorter one of the same kind
UniqueLongest(srcs, s, k) ==
    LET v == Get(srcs[s].rec, k) IN
    /\ HasLen(v)
    /\ ~IsEmpty(v)
    /\ \A t \in 1..Len(srcs) :
          t # s =>
             LET w == Get(srcs[t].rec, k) IN
             \/ IsEmpty(w)
             \/ w.t = v.t /\ PyLen(w) < PyLen(v)

\* the name of some file the records of a key were read from gives a category
FileCategoryAmong(srcs) ==
    \E t \in 1..Len(srcs) : Truthy(extract_category_from_filename(srcs[t].file))

\* C18: whatever the order in which the records of a key were read, a field in
\* which one record's value is strictly longer than all others' ends with that
\* value (category left aside when a file name overrides it)
C18_OrderIndependent ==
    \A i \in 1..Len(products_by_url) :
        LET srcs == products_by_url[i].srcs IN
        \A s \in 1..Len(srcs) :
            \A j \in 1..Len(srcs[s].rec) :
                LET k == srcs[s].rec[j].k IN
                /\ UniqueLongest(srcs, s, k)
                /\ ~(k = "category" /\ FileCategoryAmong(srcs))
                => Get(products_by_url[i].rec, k) = Get(srcs[s].rec, k)

\* the fields of a record that hold a value that is not empty
NonEmptyFields(d) == {d[i].k : i \in {n \in 1..Len(d) : ~IsEmpty(d[n].v)}}

\* the merged value of field k is a sequence at least as long as the sequence v
\* (nothing is asked for an empty v: a field that is absent has length 0)
AtLeastAsLong(merged, k, v) ==
    IsList(v) /\ ~IsEmpty(v) =>
        IsList(Get(merged, k)) /\ PyLen(Get(merged, k)) >= PyLen(v)

\* C19: for a key that two records X then Y were read under, every sequence
\* field of the merged record is at least as long as it is in X and in Y, and
\* the fields that hold a value are those that reading Y then X gives
C19_MergeComplete ==
    \A i \in 1..Len(products_by_url) :
        LET srcs == products_by_url[i].srcs
            merged == products_by_url[i].rec
        IN  Len(srcs) = 2 =>
              /\ \A s \in 1..2 : \A j \in 1..Len(srcs[s].rec) :
                    AtLeastAsLong(merged, srcs[s].rec[j].k, srcs[s].rec[j].v)
              /\ NonEmptyFields(merged) = NonEmptyFields(Rebuilt(<<srcs[2], srcs[1]>>))

\* C20: when a record is merged into the record of its key and the name of its
\* file gives a category, the merged record's category is that category
C20_FileCategoryOverrides ==
    MergeStep /\ Truthy(file_category) => Get(Merged, "category") = file_category

\* C21: when the run has written its output, the category of a record whose
\* last source was read from a file whose name gives a category is that
\* category, also when that source was the first of its key and carried a
\* category of its own
C21_FilenameAuthoritative ==
    pc = "done" =>
        \A i \in 1..Len(products_by_url) :
            LET srcs == products_by_url[i].srcs
                fcat == extract_category_from_filename(srcs[Len(srcs)].file)
            IN  Truthy(fcat) => Get(all_products[i], "category") = fcat

-----------------------------------------------------------------------------
(* Properties of the classification *)

C23_NoShortsForSleeve ==
    LET Sleeve(rec) == Contains(lower(Get(rec, "name").v), "sleeve")
    IN  /\ pc = "done" =>
            \A i \in 1..Len(all_products) :
                NeedsCategory(products_by_url[i].rec) /\ Sleeve(all_products[i])
                    => Get(all_products[i], "category") # Str("Shorts")
        /\ fpc = "saved" =>
            \A i \in 1..Len(fixed_products) :
                Sleeve(fixed_products[i]) => Get(fixed_products[i], "category") # Str("Shorts")

\* C24: in the combined file, a merged record whose category is "Other",
\* "null" or empty has the category the keyword cascade gives for its url and
\* name, and a merged record with another category value has that value
C24_Placeholders ==
    pc = "done" =>
        \A i \in 1..Len(all_products) :
            LET rec == products_by_url[i].rec
                c == Get(rec, "category")
            IN  IF c.t = "null" \/ (IsStr(c) /\ c.v \in {"Other", "null", ""})
                THEN Get(all_products[i], "category") =
                        Str(CascadeCategory(lower(Get(rec, "url").v),
                                            lower(GetOr(rec, "name", Str("")).v)))
                ELSE Get(all_products[i], "category") = c

\* a combined file with a record whose placeholder was replaced and a record
\* that kept the category of its source
C24_Witness ==
    /\ pc = "done"
    /\ \E i \in 1..Len(all_products) :
        /\ IsStr(Get(products_by_url[i].rec, "category"))
        /\ Get(products_by_url[i].rec, "category").v \in {"Other", "null"}
        /\ Get(all_products[i], "category").v \in {"Outerwear", "Shorts"}
    /\ \E i \in 1..Len(all_products) :
        /\ Get(products_by_url[i].rec, "category") = Str("Layers")
        /\ Get(all_products[i], "category") = Str("Layers")

\* C25: in the combined file, a record whose lower-cased url contains
\* "womens" or "/women" has gender Women, and otherwise a record whose url
\* contains "mens" or "/men" has gender Men, whatever gender it had before
C25_GenderFromUrl ==
    pc = "done" =>
        \A i \in 1..Len(all_products) :
            LET url == lower(Get(all_products[i], "url").v)
            IN  IF Contains(url, "womens") \/ Contains(url, "/women")
                THEN Get(all_products[i], "gender") = Str("Women")
                ELSE Contains(url, "mens") \/ Contains(url, "/men")
                        => Get(all_products[i], "gender") = Str("Men")

\* a record of a /mens/ url that carried gender Women is written with Men,
\* next to a record of a /women/ url that carried Men and is written with Women
C25_Witness ==
    /\ pc = "done"
    /\ \E i \in 1..Len(all_products) :
        /\ Contains(Get(all_products[i], "url").v, "/mens/")
        /\ Get(products_by_url[i].rec, "gender") = Str("Women")
        /\ Get(all_products[i], "gender") = Str("Men")
    /\ \E i \in 1..Len(all_products) :
        /\ Contains(Get(all_products[i], "url").v, "/women/")
        /\ Get(products_by_url[i].rec, "gender") = Str("Men")
        /\ Get(all_products[i], "gender") = Str("Women")

\* C26: in the combined file, a record whose lower-cased url contains none of
\* "womens", "/women", "mens", "/men" has the gender field it had before the
\* clean-up, absent when it was absent, whatever its name says
C26_NoGenderGuess ==
    pc = "done" =>
        \A i \in 1..Len(all_products) :
            LET url == lower(Get(all_products[i], "url").v)
                rec == products_by_url[i].rec
            IN  ~(\E w \in {"womens", "/women", "mens", "/men"} : Contains(url, w))
                    => /\ Has(all_products[i], "gender") = Has(rec, "gender")
                       /\ Has(rec, "gender") =>
                            Get(all_products[i], "gender") = Get(rec, "gender")

\* a record named "Mens Swift Tank" without gender is written without gender,
\* next to a record that kept the gender Unisex
C26_Witness ==
    /\ pc = "done"
    /\ \E i \in 1..Len(all_products) :
        /\ Get(all_products[i], "name") = Str("Mens Swift Tank")
        /\ ~Has(all_products[i], "gender")
    /\ \E i \in 1..Len(all_products) :
        /\ Has(all_products[i], "gender")
        /\ Get(all_products[i], "gender") = Str("Unisex")

\* C27: no record of the combined file has the field original_price, and a
\* merged record with original_price and without price is written with price
\* equal to that original_price
C27_PriceAligned ==
    pc = "done" =>
        \A i \in 1..Len(all_products) :
            LET rec == products_by_url[i].rec
            IN  /\ ~Has(all_products[i], "original_price")
                /\ Has(rec, "original_price") /\ ~Has(rec, "price")
                      => Get(all_products[i], "price") = Get(rec, "original_price")

\* a record with original_price only and a record with original_price and
\* price have both been written
C27_Witness ==
    /\ pc = "done"
    /\ \E i \in 1..Len(all_products) :
        /\ Has(products_by_url[i].rec, "original_price")
        /\ ~Has(products_by_url[i].rec, "price")
        /\ Get(all_products[i], "price") = Num(98)
    /\ \E i \in 1..Len(all_products) :
        /\ Has(products_by_url[i].rec, "original_price")
        /\ Has(products_by_url[i].rec, "price")

-----------------------------------------------------------------------------
(* Properties of a file that is left on an error *)

\* C28: after a record that raised (no object, or a merge that compares a
\* list with a number) the file is left and the next step opens a file or
\* ends the run; every other entry of the accumulation is as before; in the
\* colliding entry the fields compared before the one that raised have the
\* value the merge rule gives them and the others are as before
C28_PartialIngestion ==
    last.op \in {"nonobject", "urlraise", "mergeraise"} =>
        /\ pc = "files"
        /\ nfiles < FileBound[dataset] => ENABLED OpenNext
        /\ Len(products_by_url) = Len(prev)
        /\ \A i \in 1..Len(prev) :
              last.op # "mergeraise" \/ prev[i].key # last.key
                  => products_by_url[i].rec = prev[i].rec
        /\ last.op = "mergeraise" =>
              LET inc == StampCategory(last.rec, file_category)
                  Raises(j) == MergeRaises(Existing, inc[j].k, inc[j].v)
                  n == CHOOSE j \in 1..Len(inc) :
                          Raises(j) /\ \A h \in 1..(j - 1) : ~Raises(h)
              IN  \A j \in 1..Len(inc) :
                      IF j < n /\ MergeTakes(Existing, inc[j].k, inc[j].v)
                      THEN Get(Merged, inc[j].k) = inc[j].v
                      ELSE SameField(Merged, Existing, inc[j].k)

\* a file whose second record raised at sizes: the first record is kept with
\* the name the interrupted merge already took, sizes and colors are those of
\* the first record, and a record of a second file has been added since
C28_Witness ==
    /\ last.op = "new"
    /\ last.key = "https://s/p/n"
    /\ nfiles = 2
    /\ \E i \in 1..Len(products_by_url) :
        /\ products_by_url[i].key = "https://s/p/m"
        /\ Len(products_by_url[i].srcs) = 2
        /\ products_by_url[i].srcs[1].file = products_by_url[i].srcs[2].file
        /\ Get(products_by_url[i].rec, "name") = Str("Tee Long")
        /\ Get(products_by_url[i].rec, "sizes") = Num(5)
        /\ Get(products_by_url[i].rec, "colors") = StrList(<<"Black">>)

-----------------------------------------------------------------------------
(* Properties of the scripts that clear the table first *)

\* C29: in clear_and_upload_auto, and in clear_brand_and_upload with the
\* brand given, nothing is read or inserted before the delete; when the file
\* is read or its reading fails, the rows to delete are gone; after a failed
\* reading nothing has been handed to the store; and no row that was in the
\* table to be deleted is in it after the delete
C29_DeleteFirst ==
    LET Cleared == IF script = "clear_and_upload_auto"
                   THEN \A i \in 1..Len(store) : \E a \in 1..Len(attempts) :
                            attempts[a].ok /\ Get(store[i], "product_id")
                                = Get(products[attempts[a].idx], "product_id")
                   ELSE \A i \in 1..Len(store) :
                            Get(store[i], "brand") = Str(BrandArg) =>
                                \E a \in 1..Len(attempts) :
                                    attempts[a].ok /\ Get(store[i], "product_id")
                                        = Get(products[attempts[a].idx], "product_id")
    IN  script \in {"clear_and_upload_auto", "clear_brand_and_upload"} =>
            /\ upc = "start" => products = <<>> /\ attempts = <<>> /\ store = prev_store
            /\ upc # "start" => Cleared /\ store # <<OldTeeRow, VuoriRow>>
            /\ ulast.op \in {"load", "loadfail"} => attempts = <<>>
            /\ upc = "failed" => attempts = <<>> /\ total_uploaded = 0 /\ products = <<>>

\* the reading of the file failed after the Rhone rows of a table with rows
\* of two brands were deleted
C29_Witness ==
    /\ script = "clear_brand_and_upload"
    /\ upc = "failed"
    /\ ulast.op = "loadfail"
    /\ store = <<VuoriRow>>

-----------------------------------------------------------------------------
(* Properties of merge_colors *)

\* the colors a row had when it was scanned, as a set
StoredSet(e) ==
    IF IsList(e.stored) THEN ColorSet(e.stored) ELSE ColorSet(json_loads(e.stored.v).v)

\* every update that was executed wrote the union of the stored and the
\* scraped colors, and every update that was issued changes the set
OnlyAddsColors ==
    \A k \in 1..Len(mlog) :
        LET e == mlog[k] IN
        /\ StoredSet(e) \cup ColorSet(e.scraped) # StoredSet(e)
        /\ e.ok => /\ json_loads(e.text).ok
                   /\ ColorSet(json_loads(e.text).v) = StoredSet(e) \cup ColorSet(e.scraped)
                   /\ StoredSet(e) \subseteq ColorSet(json_loads(e.text).v)

====
